---- MODULE Spec2Model ----
(***************************************************************************)
(* Task Ticker (src/task_ticker.py): the TaskManager collection, the       *)
(* FileManager document and backup, and the TaskTickerUI event handlers    *)
(* that drive them.                                                        *)
(*                                                                         *)
(* Python strings the code transforms or compares character by character   *)
(* (titles, groups, ISO dates, the sequence entry) are sequences of        *)
(* one-character strings.  None is 0 for an id and <<>> for a label.       *)
(***************************************************************************)
EXTENDS Integers, Sequences, FiniteSets, TLC

\* ------------------------------------------------------------------ bounds
\* uuid4() is called at most MaxAdds times: ids are 1..MaxAdds, never reused.
MaxAdds == 2
\* FileManager.save_json raises at most MaxIOFailures times in a run.
MaxIOFailures == 1

\* --------------------------------------------------------- string helpers
IsSpace(c) == c = " "

RECURSIVE LStrip(_)
LStrip(s) == IF s # <<>> /\ IsSpace(Head(s)) THEN LStrip(Tail(s)) ELSE s

RECURSIVE RStrip(_)
RStrip(s) ==
    IF s # <<>> /\ IsSpace(s[Len(s)]) THEN RStrip(SubSeq(s, 1, Len(s) - 1)) ELSE s

\* Strip with the call to strip() forgotten.
Strip_forgotten(s) == s

\* str.strip()
Strip(s) == RStrip(LStrip(s))

UpperChar(c) ==
    CASE c = "w" -> "W" [] c = "g" -> "G" [] c = "e" -> "E" [] c = "n" -> "N"
      [] c = "r" -> "R" [] c = "a" -> "A" [] c = "l" -> "L" [] OTHER -> c

LowerChar(c) ==
    CASE c = "W" -> "w" [] c = "G" -> "g" [] c = "E" -> "e" [] c = "N" -> "n"
      [] c = "R" -> "r" [] c = "A" -> "a" [] c = "L" -> "l" [] OTHER -> c

IsLetter(c) == UpperChar(c) # c \/ LowerChar(c) # c

\* str.title(): a letter that follows a non-letter (or starts the string) is
\* upper-cased, every other letter lower-cased.
TitleCase(s) ==
    [i \in 1..Len(s) |->
        IF i = 1 \/ ~IsLetter(s[i - 1]) THEN UpperChar(s[i]) ELSE LowerChar(s[i])]

\* str.lower() on the status strings and the status filter's options.
Lower(s) ==
    CASE s = "All" -> "all" [] s = "Pending" -> "pending" [] s = "Done" -> "done"
      [] OTHER -> s

Digits == <<"0", "1", "2", "3", "4", "5", "6", "7", "8", "9">>

IsDigit(c) == \E i \in 1..10 : Digits[i] = c

DigitValue(c) == (CHOOSE i \in 1..10 : Digits[i] = c) - 1

\* The characters that are compared, in code point order.
CodePoints ==
    <<" ", "-", "0", "1", "2", "3", "4", "5", "6", "7", "8", "9",
      "a", "l", "m", "n", "o", "r">>

\* ord(c), up to an order-preserving renumbering.
OrdTable ==
    [c \in {CodePoints[i] : i \in 1..Len(CodePoints)} |->
        CHOOSE i \in 1..Len(CodePoints) : CodePoints[i] = c]

Ord(c) == OrdTable[c]

\* Python's > on str: lexicographic by code point, a proper prefix is smaller.
RECURSIVE StrGreater(_, _)
StrGreater(a, b) ==
    IF a = <<>> THEN FALSE
    ELSE IF b = <<>> THEN TRUE
    ELSE IF Ord(Head(a)) # Ord(Head(b)) THEN Ord(Head(a)) > Ord(Head(b))
    ELSE StrGreater(Tail(a), Tail(b))

\* n written with at least w digits, zero padded (%0wd).
RECURSIVE Pad(_, _)
Pad(n, w) ==
    IF w <= 1 /\ n < 10 THEN <<Digits[n + 1]>>
    ELSE Append(Pad(n \div 10, w - 1), Digits[(n % 10) + 1])

\* datetime.date.isoformat(): YYYY-MM-DD.
IsoFormat(d) == Pad(d[1], 4) \o <<"-">> \o Pad(d[2], 2) \o <<"-">> \o Pad(d[3], 2)

RECURSIVE DigitsValue(_, _)
DigitsValue(s, acc) ==
    IF s = <<>> THEN acc ELSE DigitsValue(Tail(s), 10 * acc + DigitValue(Head(s)))

AllDigits(s) == s # <<>> /\ \A i \in 1..Len(s) : IsDigit(s[i])

\* int(str): surrounding whitespace, an optional sign, decimal digits; anything
\* else raises ValueError.
IsIntLiteral(s) ==
    LET t == Strip(s) IN
    IF t # <<>> /\ Head(t) \in {"-", "+"} THEN AllDigits(Tail(t)) ELSE AllDigits(t)

IntOf(s) ==
    LET t == Strip(s) IN
    IF Head(t) = "-" THEN 0 - DigitsValue(Tail(t), 0)
    ELSE IF Head(t) = "+" THEN DigitsValue(Tail(t), 0)
    ELSE DigitsValue(t, 0)

\* ------------------------------------------------------------ user inputs
\* What the user can have put in the four entries before pressing Add Task:
\* the task entry, the group entry, the DateEntry's date as (year, month, day)
\* and the sequence entry.
Entries(text, group, date, seq) ==
    [text |-> text, group |-> group, date |-> date, seq |-> seq]

AddInputs ==
    { Entries(<<" ", "a", " ">>, <<>>, <<2025, 1, 10>>, <<>>),
      Entries(<<"b">>, <<" ", "w">>, <<2025, 1, 5>>, <<"0">>),
      Entries(<<>>, <<>>, <<2025, 1, 10>>, <<>>),
      Entries(<<" ">>, <<"w">>, <<2025, 1, 5>>, <<"0">>),
      Entries(<<"a">>, <<>>, <<2025, 1, 10>>, <<"x">>) }

\* How the saves of a run can end.
SaveOutcomes == {"ok"}

\* How a save can end when the file system can fail: see IOOutcomes.
SaveResults == {"ok", "copy", "open", "write"}

StatusFilters == {"All", "Pending", "Done"}
SortKeys == {"due_date", "created_at", "priority", "sequence"}

NoId == 0
NoneLabel == <<>>
\* The group filter's "All Groups" option.
AllGroups == <<"A", "l", "l", " ", "G", "r", "o", "u", "p", "s">>
\* The priority every task is created with, "normal".
NormalPriority == <<"n", "o", "r", "m", "a", "l">>
\* The group of a task whose group entry is blank, "General".
GeneralGroup == <<"G", "e", "n", "e", "r", "a", "l">>
IDs == 1..MaxAdds

\* The first six characters of an id, id[:6]: two ids can share them.
IdPrefix(id) == (id + 1) \div 2

\* ------------------------------------------------------------- FileManager
NoFile == [exists |-> FALSE, valid |-> TRUE, data |-> <<>>]
Document(data) == [exists |-> TRUE, valid |-> TRUE, data |-> data]
\* A file opened for writing (truncated) whose json.dump did not finish.
Truncated == [exists |-> TRUE, valid |-> FALSE, data |-> <<>>]

\* Where save_json can raise: "copy" in shutil.copy, "open" in open(filepath, 'w'),
\* "write" in json.dump; "ok" raises nowhere.
IOOutcomes(file, create_backup) ==
    {"ok", "open", "write"} \cup (IF create_backup /\ file.exists THEN {"copy"} ELSE {})

\* save_json copying the document to the backup after writing it.
save_json_backup_after(file, backup, data, create_backup, io) ==
    [ok     |-> io = "ok",
     backup |-> IF create_backup /\ file.exists /\ io = "ok" THEN Document(data)
                ELSE backup,
     file   |-> CASE io = "ok" -> Document(data)
                  [] io = "write" -> Truncated
                  [] OTHER -> file]

\* FileManager.save_json(filepath, data, create_backup) with the outcome io.
save_json(file, backup, data, create_backup, io) ==
    LET copied == IF create_backup /\ file.exists /\ io # "copy" THEN file ELSE backup
    IN  [ok     |-> io = "ok",
         backup |-> copied,
         file   |-> CASE io = "ok" -> Document(data)
                      [] io = "write" -> Truncated
                      [] OTHER -> file]

\* ------------------------------------------------------------- TaskManager
\* The index in ts of the first task whose id is id; 0 for None.
find_task_by_id(ts, id) ==
    IF \E i \in 1..Len(ts) : ts[i].id = id
    THEN CHOOSE i \in 1..Len(ts) :
            ts[i].id = id /\ \A j \in 1..(i - 1) : ts[j].id # id
    ELSE 0

\* NewId handing out the id of the task created last again.
NewId_reused(n) == IF n = 0 THEN 1 ELSE n

\* str(uuid4()) of the (n+1)-th task created: an id no task was given before.
NewId(n) == n + 1

\* datetime.now() when the (n+1)-th task is created: the clock only advances.
Now(n) == n + 1

\* add_task making the task depended on depend on the new task in turn.
add_task_linking_back(ts, id, now, task_data) ==
    Append([k \in 1..Len(ts) |->
               IF ts[k].id = task_data.depends_on
               THEN [ts[k] EXCEPT !.depends_on = id]
               ELSE ts[k]],
           [id         |-> id,
            created_at |-> now,
            status     |-> "pending",
            task       |-> task_data.task,
            group      |-> task_data.group,
            due_date   |-> task_data.due_date,
            priority   |-> task_data.priority,
            sequence   |-> task_data.sequence,
            depends_on |-> task_data.depends_on])

\* TaskManager.add_task: the task dict built from a fresh uuid, the clock and
\* task_data, appended.
add_task(ts, id, now, task_data) ==
    Append(ts, [id         |-> id,
                created_at |-> now,
                status     |-> "pending",
                task       |-> task_data.task,
                group      |-> task_data.group,
                due_date   |-> task_data.due_date,
                priority   |-> task_data.priority,
                sequence   |-> task_data.sequence,
                depends_on |-> task_data.depends_on])

\* delete_task deleting the tasks that depend on the deleted one with it.
delete_task_with_dependents(ts, task_id) ==
    SelectSeq(ts, LAMBDA t : t.id # task_id /\ t.depends_on # task_id)

\* TaskManager.delete_task.
delete_task(ts, task_id) == SelectSeq(ts, LAMBDA t : t.id # task_id)

\* dependency_blocks with the status test inverted (== "done").
dependency_blocks_inverted(ts, task) ==
    /\ task.depends_on # NoId
    /\ LET dep == find_task_by_id(ts, task.depends_on)
       IN  dep # 0 /\ ts[dep].status = "done"

\* The dependency check of toggle_task_status: the task has a depends_on, the
\* task it names is found, and that task is not done.
dependency_blocks(ts, task) ==
    /\ task.depends_on # NoId
    /\ LET dep == find_task_by_id(ts, task.depends_on)
       IN  dep # 0 /\ ts[dep].status # "done"

\* toggle_task_status setting the tasks that depend on the toggled one back to
\* pending.
toggle_task_status_cascading(ts, task_id) ==
    LET i == find_task_by_id(ts, task_id) IN
    IF i = 0 THEN [result |-> "None", tasks |-> ts, saved |-> FALSE]
    ELSE IF dependency_blocks(ts, ts[i])
    THEN [result |-> "False", tasks |-> ts, saved |-> FALSE]
    ELSE [result |-> "True",
          tasks  |-> [k \in 1..Len(ts) |->
                         IF k = i
                         THEN [ts[k] EXCEPT !.status =
                                  IF @ = "pending" THEN "done" ELSE "pending"]
                         ELSE IF ts[k].depends_on = task_id
                              THEN [ts[k] EXCEPT !.status = "pending"]
                              ELSE ts[k]],
          saved  |-> TRUE]

\* TaskManager.toggle_task_status: its return value and the tasks afterwards;
\* saved tells whether save_tasks was called.
toggle_task_status(ts, task_id) ==
    LET i == find_task_by_id(ts, task_id) IN
    IF i = 0 THEN [result |-> "None", tasks |-> ts, saved |-> FALSE]
    ELSE IF dependency_blocks(ts, ts[i])
    THEN [result |-> "False", tasks |-> ts, saved |-> FALSE]
    ELSE [result |-> "True",
          tasks  |-> [ts EXCEPT ![i].status =
                         IF @ = "pending" THEN "done" ELSE "pending"],
          saved  |-> TRUE]

\* get_filtered_tasks comparing the status without lower().
get_filtered_tasks_case_sensitive(ts, status, group) ==
    LET byStatus == IF status # "All"
                    THEN SelectSeq(ts, LAMBDA t : t.status = status)
                    ELSE ts
    IN  IF group # AllGroups
        THEN SelectSeq(byStatus, LAMBDA t : t.group = group)
        ELSE byStatus

\* TaskManager.get_filtered_tasks.
get_filtered_tasks(ts, status, group) ==
    LET byStatus == IF status # "All"
                    THEN SelectSeq(ts, LAMBDA t : Lower(t.status) = Lower(status))
                    ELSE ts
    IN  IF group # AllGroups
        THEN SelectSeq(byStatus, LAMBDA t : t.group = group)
        ELSE byStatus

\* The sort key of sort_tasks: t.get(key) or the default, the default being
\* "9999-12-31" for due_date and 9999 for the other keys.  A falsy value
\* (None, "", 0) takes the default.
MaxDate == <<"9", "9", "9", "9", "-", "1", "2", "-", "3", "1">>
MaxNumber == 9999

SortKey(t, key) ==
    CASE key = "due_date"   -> IF t.due_date = <<>> THEN MaxDate ELSE t.due_date
      [] key = "sequence"   -> IF t.sequence = 0 THEN MaxNumber ELSE t.sequence
      [] key = "created_at" -> IF t.created_at = 0 THEN MaxNumber ELSE t.created_at
      [] OTHER              -> IF t.priority = <<>> THEN MaxNumber ELSE t.priority

\* a < b on two sort keys of the key's type (str for due_date and priority;
\* created_at, an ISO timestamp in the code, is the clock reading here).
KeyLess(key, a, b) ==
    IF key \in {"due_date", "priority"} THEN StrGreater(b, a) ELSE a < b

\* InsertSorted putting x in front of the elements equal to it.
RECURSIVE InsertSorted_before_equal(_, _, _)
InsertSorted_before_equal(key, s, x) ==
    IF s = <<>> THEN <<x>>
    ELSE IF ~KeyLess(key, SortKey(Head(s), key), SortKey(x, key))
         THEN <<x>> \o s
         ELSE <<Head(s)>> \o InsertSorted_before_equal(key, Tail(s), x)

\* x put into the sorted sequence s behind every element that is not greater.
RECURSIVE InsertSorted(_, _, _)
InsertSorted(key, s, x) ==
    IF s = <<>> THEN <<x>>
    ELSE IF KeyLess(key, SortKey(x, key), SortKey(Head(s), key))
         THEN <<x>> \o s
         ELSE <<Head(s)>> \o InsertSorted(key, Tail(s), x)

RECURSIVE SortFrom(_, _, _)
SortFrom(key, sorted, rest) ==
    IF rest = <<>> THEN sorted
    ELSE SortFrom(key, InsertSorted(key, sorted, Head(rest)), Tail(rest))

\* TaskManager.sort_tasks: list.sort(key=...), a stable ascending sort.
sort_tasks(ts, key) == SortFrom(key, <<>>, ts)

\* ------------------------------------------------------------------ state
VARIABLES
    tasks,                \* TaskManager.tasks
    visible_tasks,        \* TaskManager.visible_tasks, as the ids of its dicts
    dependency_map,       \* TaskManager.dependency_map, as (label, id) pairs
    listbox_rows,         \* the number of rows task_listbox holds
    selected_dependency,  \* the label the selected_dependency variable holds
    filter_mode,          \* the status filter variable
    sort_key,             \* the sort key variable
    uuids,                \* how many times add_task called uuid4()
    file,                 \* the document at Config.PATHS["TASKS"]
    backup,               \* the document at Config.PATHS["BACKUP"]
    io_failures,          \* how many saves raised so far
    last                  \* the last handler or method run and how it ended

vars == <<tasks, visible_tasks, dependency_map, listbox_rows, selected_dependency,
          filter_mode, sort_key, uuids, file, backup, io_failures, last>>

\* The group filter variable.  Its options call set_group_filter, which
\* TaskTickerUI does not define, so it keeps its initial value.
group_filter == AllGroups

\* ---------------------------------------------------------------------- UI
\* The label update_dependency_dropdown gives a task.
Label(t) == <<t.task, t.group, IdPrefix(t.id)>>

\* update_dependency_dropdown: the map is cleared and filled in the order of
\* tasks, a later task replacing an earlier one with the same label.
update_dependency_dropdown(ts) ==
    {<<Label(ts[i]), ts[i].id>> : i \in
        {i \in 1..Len(ts) : \A j \in (i + 1)..Len(ts) : Label(ts[j]) # Label(ts[i])}}

\* dependency_map.get(label)
MapGet(map, label) ==
    IF \E p \in map : p[1] = label
    THEN (CHOOSE p \in map : p[1] = label)[2]
    ELSE NoId

\* The rendering of one row subscripts find_task_by_id's result: a task whose
\* depends_on names no task raises TypeError.
RowRaises(ts, t) == t.depends_on # NoId /\ find_task_by_id(ts, t.depends_on) = 0

\* render_task_list: the list box is emptied, visible_tasks is set to the
\* filtered tasks, and rows are inserted in order until one raises.
render_task_list(ts, mode) ==
    LET visible == get_filtered_tasks(ts, mode, group_filter)
        bad     == {i \in 1..Len(visible) : RowRaises(ts, visible[i])}
        first   == IF bad = {} THEN Len(visible) + 1
                   ELSE CHOOSE i \in bad : \A j \in bad : i <= j
    IN  [visible_tasks |-> [i \in 1..Len(visible) |-> visible[i].id],
         listbox_rows  |-> first - 1,
         raised        |-> IF bad = {} THEN "-" ELSE "TypeError"]

\* What a handler or method reports: the TaskManager method's return value
\* (result, "-" if none was called), the message box shown, the exception that
\* left the handler, the number of save_tasks calls, the task concerned.
Last(op, id, result, shown, raised, saves) ==
    [op |-> op, id |-> id, result |-> result, shown |-> shown,
     raised |-> raised, saves |-> saves]

\* save_tasks passing create_backup=False.
save_tasks_without_backup(ts, io) ==
    /\ io \in IOOutcomes(file, FALSE)
    /\ io # "ok" => io_failures < MaxIOFailures
    /\ LET r == save_json(file, backup, ts, FALSE, io)
       IN  /\ file' = r.file
           /\ backup' = r.backup
    /\ io_failures' = IF io = "ok" THEN io_failures ELSE io_failures + 1

\* TaskManager.save_tasks with the outcome io.
save_tasks(ts, io) ==
    /\ io \in IOOutcomes(file, TRUE)
    /\ io # "ok" => io_failures < MaxIOFailures
    /\ LET r == save_json(file, backup, ts, TRUE, io)
       IN  /\ file' = r.file
           /\ backup' = r.backup
    /\ io_failures' = IF io = "ok" THEN io_failures ELSE io_failures + 1

\* on_sort_change: sort_tasks by the sort key, then render_task_list.
SortAndRender(ts, key, op, id, result, saves) ==
    LET sorted == sort_tasks(ts, key)
        r      == render_task_list(sorted, filter_mode)
    IN  /\ tasks' = sorted
        /\ visible_tasks' = r.visible_tasks
        /\ listbox_rows' = r.listbox_rows
        /\ last' = Last(op, id, result, "-", r.raised, saves)

\* update_ui: the group options, the dependency dropdown, on_sort_change.
update_ui(ts, op, id, result, saves) ==
    /\ dependency_map' = update_dependency_dropdown(ts)
    /\ SortAndRender(ts, sort_key, op, id, result, saves)

Init ==
    /\ tasks = <<>>
    /\ visible_tasks = <<>>
    /\ dependency_map = {}
    /\ listbox_rows = 0
    /\ selected_dependency = NoneLabel
    /\ filter_mode = "All"
    /\ sort_key = "due_date"
    /\ uuids = 0
    /\ file = NoFile
    /\ backup = NoFile
    /\ io_failures = 0
    /\ last = Last("init", NoId, "-", "-", "-", 0)

\* A handler that returns without touching anything but what it reports.
Rejected(op, id, result, shown, raised) ==
    /\ last' = Last(op, id, result, shown, raised, 0)
    /\ UNCHANGED <<tasks, visible_tasks, dependency_map, listbox_rows,
                   selected_dependency, filter_mode, sort_key, uuids, file, backup,
                   io_failures>>

\* The depends_on on_add_task resolves from the selected label.
ResolvedDependency ==
    IF selected_dependency # NoneLabel
    THEN MapGet(dependency_map, selected_dependency)
    ELSE NoId

\* DueDateConflict with >= for >.
DueDateConflict_or_equal(ts, depends_on, due_date) ==
    /\ depends_on # NoId
    /\ LET parent == find_task_by_id(ts, depends_on)
       IN  parent # 0 /\ ~StrGreater(due_date, ts[parent].due_date)

\* DueDateConflict with the operands of > exchanged.
DueDateConflict_exchanged(ts, depends_on, due_date) ==
    /\ depends_on # NoId
    /\ LET parent == find_task_by_id(ts, depends_on)
       IN  parent # 0 /\ StrGreater(due_date, ts[parent].due_date)

\* The due date check of on_add_task.
DueDateConflict(ts, depends_on, due_date) ==
    /\ depends_on # NoId
    /\ LET parent == find_task_by_id(ts, depends_on)
       IN  parent # 0 /\ StrGreater(ts[parent].due_date, due_date)

\* The task_data dict on_add_task builds from the entries.
TaskData(text, group_in, date, seq_in, depends_on) ==
    LET group == IF Strip(group_in) # <<>> THEN Strip(group_in) ELSE GeneralGroup
    IN  [task       |-> text,
         group      |-> TitleCase(group),
         due_date   |-> IsoFormat(date),
         priority   |-> NormalPriority,
         sequence   |-> IF seq_in = <<>> THEN 1 ELSE IntOf(seq_in),
         depends_on |-> depends_on]

\* on_add_task with the entries' contents and the save's outcome.
OnAddTask(entries, io) ==
    LET text_in  == entries.text
        group_in == entries.group
        date     == entries.date
        seq_in   == entries.seq
        text     == Strip(text_in)
    IN
    \/ /\ text = <<>>
       /\ Rejected("on_add_task", NoId, "-", "EmptyTitle", "-")
    \/ /\ text # <<>>
       /\ seq_in # <<>> /\ ~IsIntLiteral(seq_in)
       /\ Rejected("on_add_task", NoId, "-", "-", "ValueError")
    \/ /\ text # <<>>
       /\ seq_in = <<>> \/ IsIntLiteral(seq_in)
       /\ DueDateConflict(tasks, ResolvedDependency, IsoFormat(date))
       /\ Rejected("on_add_task", NoId, "-", "DueDateConflict", "-")
    \/ /\ text # <<>>
       /\ seq_in = <<>> \/ IsIntLiteral(seq_in)
       /\ ~DueDateConflict(tasks, ResolvedDependency, IsoFormat(date))
       /\ uuids < MaxAdds
       /\ LET id    == NewId(uuids)
              added == add_task(tasks, id, Now(uuids),
                                TaskData(text, group_in, date, seq_in, ResolvedDependency))
          IN  /\ uuids' = uuids + 1
              /\ save_tasks(added, io)
              /\ selected_dependency' = NoneLabel
              /\ update_ui(added, "on_add_task", id, "True", 1)
       /\ UNCHANGED <<filter_mode, sort_key>>

\* on_delete_task with row idx selected (0: no selection).
OnDeleteTask(idx, io) ==
    \/ /\ idx = 0
       /\ Rejected("on_delete_task", NoId, "-", "NoSelection", "-")
    \/ /\ idx \in 1..listbox_rows
       /\ LET id   == visible_tasks[idx]
              left == delete_task(tasks, id)
          IN  /\ save_tasks(left, io)
              /\ update_ui(left, "on_delete_task", id, "True", 1)
       /\ UNCHANGED <<selected_dependency, filter_mode, sort_key, uuids>>

\* on_toggle_status with row idx selected (0: no selection).
OnToggleStatus(idx, io) ==
    \/ /\ idx = 0
       /\ Rejected("on_toggle_status", NoId, "-", "NoSelection", "-")
    \/ /\ idx \in 1..listbox_rows
       /\ LET id == visible_tasks[idx]
              r  == toggle_task_status(tasks, id)
          IN  \/ /\ r.result = "None"
                 /\ Rejected("on_toggle_status", id, "None", "-", "-")
              \/ /\ r.result = "False"
                 /\ Rejected("on_toggle_status", id, "False", "DependencyUnmet", "-")
              \/ /\ r.result = "True"
                 /\ save_tasks(r.tasks, io)
                 /\ update_ui(r.tasks, "on_toggle_status", id, "True", 1)
                 /\ UNCHANGED <<selected_dependency, filter_mode, sort_key, uuids>>

\* The status filter menu: the variable is set, then on_filter_change renders.
OnFilterChange(mode) ==
    LET r == render_task_list(tasks, mode) IN
    /\ filter_mode' = mode
    /\ visible_tasks' = r.visible_tasks
    /\ listbox_rows' = r.listbox_rows
    /\ last' = Last("on_filter_change", NoId, "-", "-", r.raised, 0)
    /\ UNCHANGED <<tasks, dependency_map, selected_dependency, sort_key, uuids, file,
                   backup, io_failures>>

\* The sort menu (the variable is set first) and the Sort Now button (key is
\* the current sort key): on_sort_change.
OnSortChange(key) ==
    /\ sort_key' = key
    /\ SortAndRender(tasks, key, "on_sort_change", NoId, "-", 0)
    /\ UNCHANGED <<dependency_map, selected_dependency, filter_mode, uuids, file,
                   backup, io_failures>>

\* An option of the dependency dropdown: "None" or a label of the map.
SelectDependency(label) ==
    /\ label = NoneLabel \/ \E p \in dependency_map : p[1] = label
    /\ selected_dependency' = label
    /\ last' = Last("select_dependency", NoId, "-", "-", "-", 0)
    /\ UNCHANGED <<tasks, visible_tasks, dependency_map, listbox_rows, filter_mode,
                   sort_key, uuids, file, backup, io_failures>>

\* An option of the group filter menu: its command calls the undefined
\* set_group_filter.
SelectGroupFilter ==
    Rejected("set_group_filter", NoId, "-", "-", "AttributeError")

\* TaskManager.delete_task called with any id: the list without it is saved.
DeleteTask(id, io) ==
    /\ tasks' = delete_task(tasks, id)
    /\ save_tasks(tasks', io)
    /\ last' = Last("delete_task", id, "True", "-", "-", 1)
    /\ UNCHANGED <<visible_tasks, dependency_map, listbox_rows, selected_dependency,
                   filter_mode, sort_key, uuids>>

\* ToggleTaskStatus undoing the flip and returning None when the save fails.
ToggleTaskStatus_rolled_back(id, io) ==
    LET r == toggle_task_status(tasks, id) IN
    \/ /\ ~r.saved
       /\ Rejected("toggle_task_status", id, r.result, "-", "-")
    \/ /\ r.saved
       /\ tasks' = IF io = "ok" THEN r.tasks ELSE tasks
       /\ save_tasks(r.tasks, io)
       /\ last' = Last("toggle_task_status", id, IF io = "ok" THEN r.result ELSE "None",
                       "-", "-", 1)
       /\ UNCHANGED <<visible_tasks, dependency_map, listbox_rows,
                      selected_dependency, filter_mode, sort_key, uuids>>

\* TaskManager.toggle_task_status called with any id.
ToggleTaskStatus(id, io) ==
    LET r == toggle_task_status(tasks, id) IN
    \/ /\ ~r.saved
       /\ Rejected("toggle_task_status", id, r.result, "-", "-")
    \/ /\ r.saved
       /\ tasks' = r.tasks
       /\ save_tasks(r.tasks, io)
       /\ last' = Last("toggle_task_status", id, r.result, "-", "-", 1)
       /\ UNCHANGED <<visible_tasks, dependency_map, listbox_rows,
                      selected_dependency, filter_mode, sort_key, uuids>>

\* TaskManager.get_filtered_tasks called with any status and group: the list
\* it returns is the result reported.
GetFilteredTasks(status, group) ==
    /\ last' = Last("get_filtered_tasks", NoId, get_filtered_tasks(tasks, status, group),
                    "-", "-", 0)
    /\ UNCHANGED <<tasks, visible_tasks, dependency_map, listbox_rows,
                   selected_dependency, filter_mode, sort_key, uuids, file, backup,
                   io_failures>>

\* The status arguments: the filter menu's options and the statuses themselves.
StatusArgs == StatusFilters \cup {"pending", "done"}
\* The group arguments: "All Groups", "General", "W" and "w".
GroupArgs == {AllGroups, GeneralGroup, <<"W">>, <<"w">>}

Labels == {NoneLabel} \cup {p[1] : p \in dependency_map}

\* The handlers of the entry row: Add Task, the user drawing the entries from
\* inputs and each save ending as one of ios, and the dependency dropdown.
EntryHandlers(inputs, ios) ==
    \/ \E entries \in inputs, io \in ios : OnAddTask(entries, io)
    \/ \E label \in Labels : SelectDependency(label)

\* The handlers of the buttons under the list, for any row or none selected.
ListHandlers(ios) ==
    \/ \E idx \in 0..listbox_rows, io \in ios : OnDeleteTask(idx, io)
    \/ \E idx \in 0..listbox_rows, io \in ios : OnToggleStatus(idx, io)

\* The handlers of the control panel, the user choosing the status filter among
\* modes and the sort key among keys (the current one: Sort Now).
ViewHandlers(modes, keys) ==
    \/ \E mode \in modes : OnFilterChange(mode)
    \/ \E key \in keys : OnSortChange(key)
    \/ SelectGroupFilter

\* TaskManager's methods called with an id directly.
Methods(ios) ==
    \/ \E id \in IDs, io \in ios : DeleteTask(id, io)
    \/ \E id \in IDs, io \in ios : ToggleTaskStatus(id, io)

\* The application, the view kept as it starts (all tasks, by due date).
Next ==
    \/ EntryHandlers(AddInputs, SaveOutcomes)
    \/ ListHandlers(SaveOutcomes)
    \/ ViewHandlers({"All"}, {"due_date"})

Spec == Init /\ [][Next]_vars

\* Tasks created by the Add Task handler, deleted and toggled by calling
\* TaskManager.delete_task and TaskManager.toggle_task_status with any id.
ApiNext ==
    \/ EntryHandlers(AddInputs, SaveOutcomes)
    \/ Methods(SaveOutcomes)

ApiSpec == Init /\ [][ApiNext]_vars

\* The application with every status filter and sort key.
ViewNext ==
    \/ EntryHandlers(AddInputs, SaveOutcomes)
    \/ ListHandlers(SaveOutcomes)
    \/ ViewHandlers(StatusFilters, SortKeys)

ViewSpec == Init /\ [][ViewNext]_vars

\* The application with every status filter, and get_filtered_tasks called
\* with any status and group.
QueryNext ==
    \/ EntryHandlers(AddInputs, SaveOutcomes)
    \/ ListHandlers(SaveOutcomes)
    \/ ViewHandlers(StatusFilters, {"due_date", "created_at"})
    \/ \E status \in StatusArgs, group \in GroupArgs : GetFilteredTasks(status, group)

QuerySpec == Init /\ [][QueryNext]_vars

\* The handlers and the methods on a file system whose saves can fail.
IoNext ==
    \/ EntryHandlers(AddInputs, SaveResults)
    \/ ListHandlers(SaveResults)
    \/ Methods(SaveResults)

IoSpec == Init /\ [][IoNext]_vars

\* ------------------------------------------------------------------ claims
\* The task of ts whose id is id (there is one).
TaskOf(ts, id) == ts[find_task_by_id(ts, id)]

Present(ts, id) == \E i \in 1..Len(ts) : ts[i].id = id

\* The calendar date an ISO date string YYYY-MM-DD denotes.
ParseDate(s) ==
    <<DigitsValue(SubSeq(s, 1, 4), 0), DigitsValue(SubSeq(s, 6, 7), 0),
      DigitsValue(SubSeq(s, 9, 10), 0)>>

\* Date a is after date b.
DateAfter(a, b) ==
    \/ a[1] > b[1]
    \/ a[1] = b[1] /\ a[2] > b[2]
    \/ a[1] = b[1] /\ a[2] = b[2] /\ a[3] > b[3]

\* A step of a toggle, by the handler or by the method, and of id.
ToggleStepOf(id) ==
    /\ last'.op \in {"on_toggle_status", "toggle_task_status"}
    /\ last'.id = id

\* The task id is in ts with a depends_on that names a task of ts that is not done.
DependencyNotDone(ts, id) ==
    /\ Present(ts, id)
    /\ TaskOf(ts, id).depends_on # NoId
    /\ Present(ts, TaskOf(ts, id).depends_on)
    /\ TaskOf(ts, TaskOf(ts, id).depends_on).status # "done"

\* The task id is in ts with a depends_on that names no task of ts.
DependencyDeleted(ts, id) ==
    /\ Present(ts, id)
    /\ TaskOf(ts, id).depends_on # NoId
    /\ ~Present(ts, TaskOf(ts, id).depends_on)

\* C1: a toggle of a pending task whose depends_on names a task of the
\* collection that is not done returns False (the handler shows Dependency
\* Unmet), and the collection, the document and the backup are what they were:
\* every repetition starts from the same state.
C1_BlockedToggleChangesNothing ==
    [][\A id \in IDs :
          (/\ ToggleStepOf(id)
           /\ DependencyNotDone(tasks, id)
           /\ TaskOf(tasks, id).status = "pending")
          => /\ last'.result = "False"
             /\ last'.op = "on_toggle_status" => last'.shown = "DependencyUnmet"
             /\ last'.saves = 0
             /\ UNCHANGED <<tasks, file, backup>>]_vars

\* C1's case: a toggle of a pending task with an unfinished dependency has
\* been refused.
C1_Witness ==
    /\ last.op \in {"on_toggle_status", "toggle_task_status"}
    /\ last.result = "False"
    /\ DependencyNotDone(tasks, last.id)
    /\ TaskOf(tasks, last.id).status = "pending"

\* C2: a toggle of a task that is done returns True and leaves it pending,
\* whatever its dependency is.
C2_DoneToPendingAlwaysSucceeds ==
    [][\A id \in IDs :
          (/\ ToggleStepOf(id)
           /\ Present(tasks, id)
           /\ TaskOf(tasks, id).status = "done")
          => /\ last'.result = "True"
             /\ TaskOf(tasks', id).status = "pending"]_vars

\* C3: a step that takes a task from pending to done starts in a state where
\* the task has no depends_on or its depends_on names a task of the collection
\* that is done.
C3_DoneOnlyWithDependencyDone ==
    [][\A id \in IDs :
          (/\ Present(tasks, id) /\ Present(tasks', id)
           /\ TaskOf(tasks, id).status = "pending"
           /\ TaskOf(tasks', id).status = "done")
          => \/ TaskOf(tasks, id).depends_on = NoId
             \/ /\ Present(tasks, TaskOf(tasks, id).depends_on)
                /\ TaskOf(tasks, TaskOf(tasks, id).depends_on).status = "done"]_vars

\* C4: every depends_on of the collection is None or the id of a task of the
\* collection.
C4_NoDanglingDependency ==
    \A i \in 1..Len(tasks) :
        tasks[i].depends_on = NoId \/ Present(tasks, tasks[i].depends_on)

\* C5: a toggle of a pending task whose dependency was deleted neither returns
\* True leaving the task done with nothing shown, nor lets an exception escape.
C5_ToggleAfterDependencyDeleted ==
    [][\A id \in IDs :
          (/\ ToggleStepOf(id)
           /\ DependencyDeleted(tasks, id)
           /\ TaskOf(tasks, id).status = "pending")
          => /\ ~(/\ last'.result = "True"
                  /\ last'.shown = "-"
                  /\ TaskOf(tasks', id).status = "done")
             /\ last'.raised = "-"]_vars

\* The entries pass the checks on_add_task makes before the due date check.
EntriesAccepted(entries) ==
    /\ \E i \in 1..Len(entries.text) : entries.text[i] # " "
    /\ entries.seq = <<>> \/ IsIntLiteral(entries.seq)

\* An on_add_task step with these entries.
AddStepOf(entries) == \E io \in SaveOutcomes : OnAddTask(entries, io)

\* C6: an add with accepted entries whose dependency is a task of the
\* collection with a later due date shows the due date conflict and changes
\* neither the collection (members, order, fields) nor the document; an add
\* whose dependency is not later than the new due date does not show it.
C6_LaterDependencyRejected ==
    [][\A entries \in AddInputs :
          (last'.op = "on_add_task" /\ EntriesAccepted(entries) /\ AddStepOf(entries))
          => LET dep == ResolvedDependency
                 later == /\ dep # NoId
                          /\ Present(tasks, dep)
                          /\ DateAfter(ParseDate(TaskOf(tasks, dep).due_date),
                                       entries.date)
             IN  /\ later => /\ last'.shown = "DueDateConflict"
                             /\ last'.saves = 0
                             /\ UNCHANGED <<tasks, file, backup>>
                 /\ ~later => last'.shown # "DueDateConflict"]_vars

\* C6's case: an add was refused for its due date.
C6_Witness ==
    /\ last.op = "on_add_task"
    /\ last.shown = "DueDateConflict"
    /\ Present(tasks, ResolvedDependency)

\* C7: a task whose depends_on names a task of the collection is not due
\* before that task.
C7_DependentNotDueEarlier ==
    \A i \in 1..Len(tasks) :
        (tasks[i].depends_on # NoId /\ Present(tasks, tasks[i].depends_on))
        => ~DateAfter(ParseDate(TaskOf(tasks, tasks[i].depends_on).due_date),
                      ParseDate(tasks[i].due_date))

\* C7's case: a task depends on a task of the collection that is due earlier.
C7_Witness ==
    \E i \in 1..Len(tasks) :
        /\ tasks[i].depends_on # NoId
        /\ Present(tasks, tasks[i].depends_on)
        /\ DateAfter(ParseDate(tasks[i].due_date),
                     ParseDate(TaskOf(tasks, tasks[i].depends_on).due_date))

\* C8: an add made while the selected dependency label belongs to no task of
\* the collection adds no task.
C8_MissingDependencyRejected ==
    [][(/\ last'.op = "on_add_task"
        /\ selected_dependency # NoneLabel
        /\ \A i \in 1..Len(tasks) : Label(tasks[i]) # selected_dependency)
       => /\ last'.result # "True"
          /\ tasks' = tasks]_vars

\* C9: an add whose title is empty or only spaces shows the empty input
\* warning, leaves the collection as it was and calls no save.
C9_BlankTitleRejected ==
    [][\A entries \in AddInputs :
          (/\ last'.op = "on_add_task"
           /\ \A i \in 1..Len(entries.text) : entries.text[i] = " "
           /\ AddStepOf(entries))
          => /\ last'.shown = "EmptyTitle"
             /\ last'.saves = 0
             /\ UNCHANGED <<tasks, file, backup, uuids>>]_vars

\* C9's case: an add was refused for its title, with tasks in the collection.
C9_Witness ==
    /\ last.op = "on_add_task"
    /\ last.shown = "EmptyTitle"
    /\ Len(tasks) > 0

\* C10: no task depends on itself.
C10_NoSelfDependency ==
    \A i \in 1..Len(tasks) : tasks[i].depends_on # tasks[i].id

\* C10's case: a task was added with a dependency.
C10_Witness ==
    /\ last.op = "on_add_task"
    /\ last.result = "True"
    /\ Present(tasks, last.id)
    /\ TaskOf(tasks, last.id).depends_on # NoId

\* The operations that change the collection, as handlers and as methods.
AddOps == {"on_add_task"}
DeleteOps == {"on_delete_task", "delete_task"}
ToggleOps == {"on_toggle_status", "toggle_task_status"}

\* C11: an add, delete or toggle whose save raises still returns True and the
\* collection holds its change: the added task is in it, the deleted task is
\* not, the toggled task has the other status.
C11_FailedSaveKeepsChange ==
    [][(io_failures' = io_failures + 1)
       => /\ last'.result = "True"
          /\ last'.op \in AddOps =>
                /\ Len(tasks') = Len(tasks) + 1
                /\ ~Present(tasks, last'.id) /\ Present(tasks', last'.id)
          /\ last'.op \in DeleteOps =>
                /\ ~Present(tasks', last'.id)
                /\ Len(tasks') = Len(tasks) - (IF Present(tasks, last'.id) THEN 1 ELSE 0)
          /\ last'.op \in ToggleOps =>
                /\ Len(tasks') = Len(tasks)
                /\ TaskOf(tasks', last'.id).status # TaskOf(tasks, last'.id).status]_vars

\* C11's case: a toggle whose save left the document half written has marked
\* its task done.
C11_Witness ==
    /\ last.op \in ToggleOps
    /\ last.saves = 1
    /\ ~file.valid
    /\ TaskOf(tasks, last.id).status = "done"

\* C12: after on_sort_change with the key due_date or sequence the collection
\* is in ascending order of that key's values: of the calendar dates for
\* due_date, of the integers (0 and negative ones included) for sequence.
C12_SortAscending ==
    [][(last'.op = "on_sort_change" /\ sort_key' \in {"due_date", "sequence"})
       => \A i, j \in 1..Len(tasks') :
             i < j =>
                IF sort_key' = "sequence"
                THEN tasks'[i].sequence <= tasks'[j].sequence
                ELSE ~DateAfter(ParseDate(tasks'[i].due_date),
                                ParseDate(tasks'[j].due_date))]_vars

\* The place of the task id in ts.
IndexOf(ts, id) == CHOOSE i \in 1..Len(ts) : ts[i].id = id

\* C13: on_sort_change leaves the collection with the same tasks, unmodified;
\* two tasks with equal sort keys keep their relative order; and
\* sorting the result again by the same key gives the same order.
C13_SortStableIdempotent ==
    [][(last'.op = "on_sort_change")
       => /\ Len(tasks') = Len(tasks)
          /\ \A i \in 1..Len(tasks) : \E j \in 1..Len(tasks') : tasks'[j] = tasks[i]
          /\ \A i, j \in 1..Len(tasks) :
                (i < j /\ SortKey(tasks[i], sort_key') = SortKey(tasks[j], sort_key'))
                => IndexOf(tasks', tasks[i].id) < IndexOf(tasks', tasks[j].id)
          /\ sort_tasks(tasks', sort_key') = tasks']_vars

\* C13's case: a sort by priority, which every task holds the same value of,
\* has kept two tasks in an order that is not the order of their creation.
C13_Witness ==
    /\ last.op = "on_sort_change"
    /\ sort_key = "priority"
    /\ Len(tasks) = 2
    /\ tasks[1].created_at > tasks[2].created_at

\* Two status words are the same when case is ignored.
SameIgnoringCase(a, b) ==
    \E word \in {{"pending", "Pending"}, {"done", "Done"}, {"All"}} :
        a \in word /\ b \in word

\* The task passes the status filter and the group filter.
Passes(t, status, group) ==
    /\ status = "All" \/ SameIgnoringCase(t.status, status)
    /\ group = AllGroups \/ t.group = group

\* The tasks of ts that pass, in the order of ts.
Passing(ts, status, group) == SelectSeq(ts, LAMBDA t : Passes(t, status, group))

\* C14: get_filtered_tasks returns the tasks of the collection that pass the
\* status filter (case ignored, All passing every status) and the group filter
\* (exact, All Groups passing every group), in the collection's order, all of
\* them for (All, All Groups); the collection is what it was.  The status
\* filter menu shows the same tasks.
C14_FilterIsSubsequence ==
    [][/\ \A status \in StatusArgs, group \in GroupArgs :
             (last'.op = "get_filtered_tasks" /\ GetFilteredTasks(status, group))
             => /\ last'.result = Passing(tasks, status, group)
                /\ (status = "All" /\ group = AllGroups) =>
                        (last'.result = tasks /\ Len(last'.result) = Len(tasks))
                /\ tasks' = tasks
       /\ last'.op = "on_filter_change"
             => /\ LET shown == Passing(tasks, filter_mode', AllGroups)
                   IN  visible_tasks' = [i \in 1..Len(shown) |-> shown[i].id]
                /\ tasks' = tasks]_vars

\* C14's case: from two tasks, one pending and one done, the call returned
\* the second alone.
C14_Witness ==
    /\ last.op = "get_filtered_tasks"
    /\ Len(tasks) = 2
    /\ tasks[1].status # tasks[2].status
    /\ tasks[1].group # tasks[2].group
    /\ last.result = <<tasks[2]>>

\* C15: a toggle that returns True leaves the collection with the same tasks
\* in the same places, the toggled task differing in its status alone, which
\* went from pending to done or from done to pending, and every other task,
\* the tasks that depend on it included, as it was.
C15_ToggleChangesOnlyStatus ==
    [][\A id \in IDs :
          (ToggleStepOf(id) /\ last'.result = "True")
          => /\ Len(tasks') = Len(tasks)
             /\ \A i \in 1..Len(tasks) :
                   IF tasks[i].id = id
                   THEN /\ tasks'[i] = [tasks[i] EXCEPT !.status = tasks'[i].status]
                        /\ <<tasks[i].status, tasks'[i].status>> \in
                              {<<"pending", "done">>, <<"done", "pending">>}
                   ELSE tasks'[i] = tasks[i]]_vars

\* C15's case: a task was toggled back to pending while a task that depends
\* on it is done.
C15_Witness ==
    /\ last.op \in ToggleOps
    /\ last.result = "True"
    /\ TaskOf(tasks, last.id).status = "pending"
    /\ \E i \in 1..Len(tasks) :
          tasks[i].depends_on = last.id /\ tasks[i].status = "done"

SavedCollection(op, id) ==
    IF op \in AddOps THEN Append(tasks, TaskOf(tasks', id)) ELSE tasks'

\* C17: an add, delete or toggle that returns True makes one save, of the
\* collection it has just changed and with the backup taken: a save that does
\* not raise leaves that collection as the document and, if there was a
\* document, that document as the backup.  An add refused for its title or its
\* due date and a toggle refused for its dependency make no save: document,
\* backup and failure count are what they were.
C17_OneSavePerChange ==
    [][/\ (last'.op \in AddOps \cup DeleteOps \cup ToggleOps /\ last'.result = "True")
          => /\ last'.saves = 1
             /\ \/ io_failures' = io_failures + 1
                \/ /\ io_failures' = io_failures
                   /\ file' = Document(SavedCollection(last'.op, last'.id))
                   /\ backup' = IF file.exists THEN file ELSE backup
       /\ (\/ last'.op \in AddOps /\ last'.shown \in {"EmptyTitle", "DueDateConflict"}
           \/ last'.op \in ToggleOps /\ last'.result = "False")
          => /\ last'.saves = 0
             /\ UNCHANGED <<tasks, file, backup, io_failures>>]_vars

\* C17's case: a delete has saved the collection it left over a document that
\* held the deleted task, which the backup still holds.
C17_Witness ==
    /\ last.op \in DeleteOps
    /\ last.saves = 1
    /\ file = Document(tasks)
    /\ backup.exists /\ Present(backup.data, last.id)

\* C18: after a step whose save overwrote a document that existed (the save
\* returned, or the document is no longer what it was), the backup is the
\* document as it was before the step.
C18_BackupIsPreviousDocument ==
    [][(/\ last'.saves = 1
        /\ file.exists
        /\ file' # file \/ io_failures' = io_failures)
       => backup' = file]_vars

\* C18's case: a save that raised while writing over a document left the
\* document half written and its previous content, some tasks, in the backup.
C18_Witness ==
    /\ last.saves = 1
    /\ file = Truncated
    /\ backup.exists /\ backup.valid /\ Len(backup.data) > 0
    /\ backup.data # tasks

\* C19: no task is done while its depends_on names a task of the collection
\* that is pending.
C19_NoDoneBeforeDependency ==
    \A i \in 1..Len(tasks) :
        (/\ tasks[i].status = "done"
         /\ tasks[i].depends_on # NoId
         /\ Present(tasks, tasks[i].depends_on))
        => TaskOf(tasks, tasks[i].depends_on).status # "pending"

\* C20: an add, delete or toggle handler that has changed the collection ends
\* with no exception raised and with one row in the list box for every task of
\* the filtered view, in the view's order, also when a task of the view has a
\* depends_on that names a deleted task.
C20_RefreshCompletes ==
    [][(/\ last'.op \in {"on_add_task", "on_delete_task", "on_toggle_status"}
        /\ last'.result = "True")
       => /\ last'.raised = "-"
          /\ LET view == Passing(tasks', filter_mode', group_filter)
             IN  /\ listbox_rows' = Len(view)
                 /\ visible_tasks' = [i \in 1..Len(view) |-> view[i].id]]_vars

\* The id reached from id by following n depends_on links through ts; None
\* when a link is None or names no task of ts.
RECURSIVE Follow(_, _, _)
Follow(ts, id, n) ==
    IF n = 0 THEN id
    ELSE IF id = NoId \/ ~Present(ts, id) THEN NoId
    ELSE Follow(ts, TaskOf(ts, id).depends_on, n - 1)

\* C21: following the depends_on links from a task of the collection, for any
\* number of links up to the number of tasks, never comes back to that task.
C21_DependsOnAcyclic ==
    \A i \in 1..Len(tasks) :
        \A n \in 1..Len(tasks) : Follow(tasks, tasks[i].id, n) # tasks[i].id

\* C21's case: the collection holds a task, the task it depends on, and the
\* end of the chain: that task depends on nothing.
C21_Witness ==
    \E i, j \in 1..Len(tasks) :
        /\ i # j
        /\ tasks[i].depends_on = tasks[j].id
        /\ tasks[j].depends_on = NoId
        /\ Follow(tasks, tasks[i].id, 2) = NoId

====
